---------------------------- MODULE Spec2Model ----------------------------
(***************************************************************************)
(* A model of flowery's Imager (src/flowery/image.py) and of the awaitable *)
(* wrapper (src/flowery/utils.py).                                         *)
(*                                                                         *)
(* An image is a record: mode, size <<w, h>>, px (the pixels in row-major  *)
(* order, each a tuple of channel values), transp (the value of            *)
(* info["transparency"], -1 when absent), loaded (whether the pixel data   *)
(* has been read) and fp (the state of the file the image was opened       *)
(* from).  PIL images live in a heap indexed by handle, an Imager holds    *)
(* one handle, and a wrapped call is a task that a worker thread executes  *)
(* one statement at a time.                                                *)
(***************************************************************************)
EXTENDS Integers, Sequences, FiniteSets, TLC

VARIABLES heap, image, tasks, calls, probe, out

vars == <<heap, image, tasks, calls, probe, out>>

(***************************************************************************)
(* Bounds of the model.                                                    *)
(***************************************************************************)
MaxCoord == 2   \* reference points of _calculate_position are in -MaxCoord..MaxCoord
MaxSide == 3    \* content sizes of _calculate_position are in -1..MaxSide
MaxCalls == 2   \* wrapped and synchronous calls made in one behaviour

None == [kind |-> "None"]

(***************************************************************************)
(* Anchors (typing.py T_Anchor), as sequences of their letters.            *)
(***************************************************************************)
T_Anchor ==
    { <<"l", "t">>, <<"l", "m">>, <<"l", "b">>,
      <<"m", "t">>, <<"m", "m">>, <<"m", "b">>,
      <<"r", "t">>, <<"r", "m">>, <<"r", "b">> }

\* the membership test `c in anchor` of a Python string
In(c, s) == \E k \in DOMAIN s : s[k] = c

\* int(0.5 * n): the product is exact for the sizes of an image and int()
\* truncates toward zero
IntHalf(n) == IF n >= 0 THEN n \div 2 ELSE -((-n) \div 2)

\* the mutant: the middle test looks for "m" anywhere in the anchor
calculate_position_anyM(size, pos, anchor) ==
    LET y1 == IF In("b", anchor) THEN pos[2] - size[2] ELSE pos[2]
        x1 == IF In("r", anchor) THEN pos[1] - size[1] ELSE pos[1]
        x2 == IF In("m", anchor) THEN x1 - IntHalf(size[1]) ELSE x1
        y2 == IF In("m", anchor) THEN y1 - IntHalf(size[2]) ELSE y1
    IN  <<x2, y2>>

\* Imager._calculate_position
calculate_position(size, pos, anchor) ==
    LET y1 == IF In("b", anchor) THEN pos[2] - size[2] ELSE pos[2]
        x1 == IF In("r", anchor) THEN pos[1] - size[1] ELSE pos[1]
        x2 == IF anchor[1] = "m" THEN x1 - IntHalf(size[1]) ELSE x1
        y2 == IF anchor[Len(anchor)] = "m" THEN y1 - IntHalf(size[2]) ELSE y1
    IN  <<x2, y2>>

(***************************************************************************)
(* Images.  The modes of the model are L, LA, RGB, RGBA and P; P images    *)
(* occur only as arguments of has_transparency.  No image of the other     *)
(* modes carries info["transparency"].                                     *)
(***************************************************************************)
Image(mode, size, px) ==
    [mode |-> mode, size |-> size, px |-> px, transp |-> -1,
     loaded |-> TRUE, fp |-> "none"]

\* a free cell of the heap
Free ==
    [mode |-> "free", size |-> <<0, 0>>, px |-> <<>>, transp |-> -1,
     loaded |-> FALSE, fp |-> "none"]

\* what two images are compared by: mode, size and pixels
Content(im) == [mode |-> im.mode, size |-> im.size, px |-> im.px]

NPixels(size) == size[1] * size[2]

\* PIL's L24 luma of an RGB triple, shifted down 16 bits
Luma(r, g, b) == (r * 19595 + g * 38470 + b * 7471 + 32768) \div 65536

ToRGBA(mode, p) ==
    CASE mode = "L"    -> <<p[1], p[1], p[1], 255>>
      [] mode = "LA"   -> <<p[1], p[1], p[1], p[2]>>
      [] mode = "RGB"  -> <<p[1], p[2], p[3], 255>>
      [] mode = "RGBA" -> p

FromRGBA(mode, q) ==
    CASE mode = "L"    -> <<Luma(q[1], q[2], q[3])>>
      [] mode = "LA"   -> <<Luma(q[1], q[2], q[3]), q[4]>>
      [] mode = "RGB"  -> <<q[1], q[2], q[3]>>
      [] mode = "RGBA" -> q

ConvertPx(from, to, p) ==
    IF from = to THEN p ELSE FromRGBA(to, ToRGBA(from, p))

\* PIL Image.convert(mode): a new image
PILConvert(im, mode) ==
    Image(mode, im.size,
          [k \in 1..NPixels(im.size) |-> ConvertPx(im.mode, mode, im.px[k])])

\* PIL Image.copy(): a new image with the same content
PILCopy(im) == Image(im.mode, im.size, im.px)

\* PIL Image.new("RGBA", size): every pixel transparent black
PILNew(mode, size) ==
    Image(mode, size, [k \in 1..NPixels(size) |-> <<0, 0, 0, 0>>])

\* PIL Image.paste(src, pos) without a mask: the source, converted to the
\* destination's mode, overwrites the destination where the two overlap
PILPaste(dst, src, pos) ==
    LET w  == dst.size[1]
        sw == src.size[1]
        sh == src.size[2]
    IN  [dst EXCEPT !.px =
            [k \in 1..NPixels(dst.size) |->
                LET sx == ((k - 1) % w) - pos[1]
                    sy == ((k - 1) \div w) - pos[2]
                IN  IF sx \in 0..(sw - 1) /\ sy \in 0..(sh - 1)
                    THEN ConvertPx(src.mode, dst.mode, src.px[sy * sw + sx + 1])
                    ELSE dst.px[k]]]

\* the division by 255 of PIL's AlphaComposite.c: (((a) >> 8) + (a)) >> 8
ShiftForDiv255(a) == ((a \div 256) + a) \div 256

\* one pixel of ImagingAlphaComposite(dst, src): src over dst
CompositePx(d, s) ==
    IF s[4] = 0 THEN d
    ELSE LET blend   == d[4] * (255 - s[4])
             outa255 == s[4] * 255 + blend
             coef1   == (s[4] * 255 * 255 * 128) \div outa255
             coef2   == 255 * 128 - coef1
             ch(c)   == ShiftForDiv255(s[c] * coef1 + d[c] * coef2 + 128 * 128) \div 128
         IN  <<ch(1), ch(2), ch(3), ShiftForDiv255(outa255 + 128)>>

\* the mutant: the two images composited the other way round
PILAlphaComposite_swapped(im1, im2) ==
    Image("RGBA", im1.size,
          [k \in 1..NPixels(im1.size) |-> CompositePx(im2.px[k], im1.px[k])])

\* PIL Image.alpha_composite(im1, im2): im2 over im1, a new image
PILAlphaComposite(im1, im2) ==
    Image("RGBA", im1.size,
          [k \in 1..NPixels(im1.size) |-> CompositePx(im1.px[k], im2.px[k])])

\* PIL ImageOps.invert on an L or RGB image
PILInvert(im) ==
    Image(im.mode, im.size,
          [k \in 1..NPixels(im.size) |->
              [c \in DOMAIN im.px[k] |-> 255 - im.px[k][c]]])

\* PIL Image.transpose: out(x, y) = in(fx(x, y), fy(x, y))
FlipTopBottom(im) ==
    LET w == im.size[1]
        h == im.size[2]
    IN  Image(im.mode, im.size,
              [k \in 1..NPixels(im.size) |->
                  im.px[(h - 1 - ((k - 1) \div w)) * w + ((k - 1) % w) + 1]])

FlipLeftRight(im) ==
    LET w == im.size[1]
    IN  Image(im.mode, im.size,
              [k \in 1..NPixels(im.size) |->
                  im.px[((k - 1) \div w) * w + (w - 1 - ((k - 1) % w)) + 1]])

Rotate180(im) ==
    Image(im.mode, im.size,
          [k \in 1..NPixels(im.size) |-> im.px[NPixels(im.size) + 1 - k]])

\* ROTATE_90 (counter-clockwise): the output is h wide and w high and
\* out(x, y) = in(w - 1 - y, x)
Rotate90(im) ==
    LET w == im.size[1]
        h == im.size[2]
    IN  Image(im.mode, <<h, w>>,
              [k \in 1..NPixels(im.size) |->
                  im.px[((k - 1) % h) * w + (w - 1 - ((k - 1) \div h)) + 1]])

\* PIL Image.rotate(angle, expand=...) for the angles PIL turns into a copy
\* or a transpose
PILRotate(im, angle) ==
    CASE angle = 0   -> PILCopy(im)
      [] angle = 90  -> Rotate90(im)
      [] angle = 180 -> Rotate180(im)

\* the in-place promotion of PIL Image.putalpha: L becomes LA, RGB becomes
\* RGBA, every pixel opaque
Promote(im) ==
    IF im.mode \in {"LA", "RGBA"} THEN im
    ELSE LET m == IF im.mode = "L" THEN "LA" ELSE "RGBA"
         IN  [im EXCEPT !.mode = m,
                        !.px = [k \in 1..NPixels(im.size) |->
                                   ConvertPx(im.mode, m, im.px[k])]]

SetAlpha(p, a) == [p EXCEPT ![Len(p)] = a]

\* PIL Image.putalpha(int) on the image itself
PutAlphaConst(im, alpha) ==
    LET q == Promote(im)
    IN  [q EXCEPT !.px = [k \in 1..NPixels(q.size) |-> SetAlpha(q.px[k], alpha)]]

\* PIL Image.putalpha(band) on the image itself, band an L image of the
\* same size
PutAlphaBand(im, band) ==
    LET q == Promote(im)
    IN  [q EXCEPT !.px = [k \in 1..NPixels(q.size) |->
                             SetAlpha(q.px[k], band.px[k][1])]]

Min(S) == CHOOSE m \in S : \A n \in S : m <= n
Max(S) == CHOOSE m \in S : \A n \in S : m >= n

\* PIL Image.getextrema(): per band, <<min, max>>
GetExtrema(im) ==
    [c \in 1..Len(im.px[1]) |->
        LET vals == {im.px[k][c] : k \in 1..NPixels(im.size)}
        IN  <<Min(vals), Max(vals)>>]

\* PIL Image.getcolors(): the (count, value) pairs of a single-band image
GetColors(im) ==
    {<<Cardinality({k \in 1..NPixels(im.size) : im.px[k][1] = v}), v>> :
        v \in {im.px[k][1] : k \in 1..NPixels(im.size)}}

\* the mutant: every RGBA image counts as transparent
has_transparency_anyRGBA(im) ==
    IF im.mode = "P"
    THEN \E c \in GetColors(im) : c[2] = im.transp
    ELSE im.mode = "RGBA"

\* Imager.has_transparency
has_transparency(im) ==
    IF im.mode = "P"
    THEN LET transparent == im.transp
             colors == GetColors(im)
         IN  \E c \in colors : c[2] = transparent
    ELSE IF im.mode = "RGBA"
    THEN LET extrema == GetExtrema(im)
         IN  extrema[4][1] < 255
    ELSE FALSE

(***************************************************************************)
(* The heap of PIL images, the Imagers and the wrapped calls.              *)
(***************************************************************************)
Imagers == {"a", "b"}

Tasks == {1, 2}

Handles == 1..(Cardinality(Imagers) + 2 * Cardinality(Tasks))

NoHandle == 0

Other(i) == CHOOSE j \in Imagers : j # i

\* the handles a state refers to: the Imagers' images and the locals and
\* results of the calls in flight
Referenced(img, tks) ==
    {img[i] : i \in Imagers}
        \cup UNION {{tks[t].tmp, tks[t].layer, tks[t].newh} : t \in Tasks}

\* reference counting: an image no one refers to is released
Collect(h, img, tks) ==
    [k \in Handles |-> IF k \in Referenced(img, tks) THEN h[k] ELSE Free]

NewHandle(h) == Min({k \in Handles : h[k] = Free})

\* PIL Image.load(): the pixel data of a file-backed image is read on first
\* use, from the file it was opened from, and the file is then closed
CanLoad(im) == im.loaded \/ im.fp = "open"

PILLoad(im) == IF im.loaded THEN im ELSE [im EXCEPT !.loaded = TRUE, !.fp = "none"]

\* PIL Image.open(file): the header is read, the pixel data is not
Opened(im) == [im EXCEPT !.loaded = FALSE, !.fp = "open"]

\* PIL Image.close(): the file is closed and the pixel data destroyed,
\* which is what __exit__ would do if it called close()
PILClose(im) ==
    [im EXCEPT !.loaded = FALSE, !.fp = IF @ = "open" THEN "closed" ELSE @]

\* PIL Image.__exit__: the file of a file-backed image is closed
PILExit(im) == IF im.fp = "open" THEN [im EXCEPT !.fp = "closed"] ELSE im

IdleTask ==
    [st |-> "idle", op |-> "none", self |-> "a", args |-> None, pc |-> "none",
     tmp |-> NoHandle, layer |-> NoHandle, newh |-> NoHandle,
     pos |-> <<0, 0>>, alpha |-> 0, outcome |-> None, received |-> None,
     runs |-> 0, pre |-> None, overlap |-> FALSE, seq |-> 0]

InFlight == {t \in Tasks : tasks[t].st \in {"queued", "running", "finished"}}

\* the slot of a new call: one never used, else one whose call was delivered
FreeSlot ==
    LET idle == {u \in Tasks : tasks[u].st = "idle"}
    IN  IF idle # {} THEN Min(idle) ELSE Min(Tasks \ InFlight)

Returns(v) == [kind |-> "return", val |-> v]
Raises(e) == [kind |-> "raise", val |-> e]

(***************************************************************************)
(* The inputs of the model.                                                *)
(***************************************************************************)
ImgA1 == Image("RGB", <<2, 1>>, <<<<200, 30, 30>>, <<0, 0, 255>>>>)
ImgA2 == Image("RGBA", <<2, 1>>, <<<<200, 30, 30, 255>>, <<0, 0, 255, 128>>>>)
ImgB1 == Image("RGBA", <<1, 1>>, <<<<0, 255, 0, 128>>>>)
ImgB2 == Image("RGB", <<1, 1>>, <<<<0, 255, 0>>>>)
ImgNew == Image("L", <<2, 1>>, <<<<0>>, <<255>>>>)

InitA == {ImgA1, ImgA2, Opened(ImgA1)}
InitB == {ImgB1, ImgB2}

\* (reference point, anchor) pairs of paste
PasteAt ==
    { <<<<0, 0>>, <<"l", "t">>>>, <<<<2, 1>>, <<"r", "b">>>>,
      <<<<1, 0>>, <<"m", "m">>>> }

\* opacity arguments: a float is given in tenths
Alphas ==
    { [ty |-> "float", v |-> -1], [ty |-> "float", v |-> 10],
      [ty |-> "float", v |-> 15],
      [ty |-> "int", v |-> -1], [ty |-> "int", v |-> 128],
      [ty |-> "int", v |-> 256],
      [ty |-> "str", v |-> 0] }

CallArgs(op, i) ==
    CASE op = "paste" ->
            { [img |-> Other(i), pos |-> pa[1], anchor |-> pa[2], reverse |-> r] :
                <<pa, r>> \in PasteAt \X BOOLEAN }
      [] op = "apply_mask" -> { [mask |-> Other(i)] }
      [] op = "rotate"     -> { [angle |-> g] : g \in {90, 180} }
      [] op = "flip"       -> { [axis |-> x] : x \in {"x", "y", "xy"} }
      [] op = "opacity"    -> { [alpha |-> al] : al \in Alphas }
      [] op = "copy"       -> { [dst |-> Other(i)] }
      [] OTHER             -> { None }

WrappedOps ==
    {"paste", "apply_mask", "invert", "grayscale", "rotate", "flip",
     "opacity", "copy", "save"}

ConcurrentOps == {"paste", "invert", "grayscale", "flip"}

\* the arguments of the calls made concurrently
ConcurrentArgs(op, i) ==
    CASE op = "paste" ->
            { [img |-> Other(i), pos |-> <<0, 0>>, anchor |-> <<"l", "t">>,
               reverse |-> r] : r \in BOOLEAN }
      [] op = "flip"  -> { [axis |-> x] : x \in {"x", "y"} }
      [] OTHER        -> { None }

FirstPc(op) ==
    CASE op = "paste"      -> "check"
      [] op = "apply_mask" -> "mask_convert"
      [] op = "invert"     -> "invert_check"
      [] op = "grayscale"  -> "grayscale"
      [] op = "rotate"     -> "rotate"
      [] op = "flip"       -> "flip"
      [] op = "opacity"    -> "validate"
      [] op = "copy"       -> "copy"
      [] op = "save"       -> "save"

Init ==
    /\ \E ia \in InitA, ib \in InitB :
          heap = [k \in Handles |->
                     IF k = 1 THEN ia ELSE IF k = 2 THEN ib ELSE Free]
    /\ image = [i \in Imagers |-> IF i = "a" THEN 1 ELSE 2]
    /\ tasks = [t \in Tasks |-> IdleTask]
    /\ calls = 0
    /\ probe = None
    /\ out = None

\* every action ends by releasing what is no longer referred to
Update(h, img, tks) ==
    /\ image' = img
    /\ tasks' = tks
    /\ heap' = Collect(h, img, tks)

(***************************************************************************)
(* awaitable (utils.py): the call of a wrapped method hands the method to  *)
(* asyncio.to_thread, a worker thread runs it, and the awaiting caller is  *)
(* resumed with its result.                                                *)
(***************************************************************************)
\* wrapper(*args): await asyncio.to_thread(func, *args); limit is the
\* number of calls the caller lets be in flight at once.  An image is not
\* pasted onto itself.
Call(t, i, op, args, limit) ==
    /\ calls < MaxCalls
    /\ Cardinality(InFlight) < limit
    /\ t = FreeSlot
    /\ op = "paste" => image[i] # image[args.img]
    /\ calls' = calls + 1
    /\ tasks' = [u \in Tasks |->
          IF u = t
          THEN [IdleTask EXCEPT !.st = "queued", !.op = op, !.self = i,
                                !.args = args, !.overlap = (InFlight # {}),
                                !.seq = calls + 1]
          ELSE IF u \in InFlight THEN [tasks[u] EXCEPT !.overlap = TRUE]
          ELSE tasks[u]]
    /\ UNCHANGED <<heap, image, probe, out>>

\* the worker thread takes the call from the executor's queue
Start(t) ==
    /\ tasks[t].st = "queued"
    /\ tasks' = [tasks EXCEPT
          ![t].st = "running",
          ![t].runs = @ + 1,
          ![t].pc = FirstPc(tasks[t].op),
          ![t].pre = [h |-> image[tasks[t].self],
                      im |-> heap[image[tasks[t].self]],
                      other |-> heap[image[Other(tasks[t].self)]]]]
    /\ UNCHANGED <<heap, image, calls, probe, out>>

\* the mutant: the future counts as resolved while the method still runs
Resolved_early(tk) == tk.st \in {"running", "finished"}

\* the future of to_thread is resolved when the method has returned or raised
Resolved(tk) == tk.st = "finished"

\* the awaiting caller receives the result; the caller of copy binds the
\* new Imager to its other variable
Deliver(t) ==
    /\ Resolved(tasks[t])
    /\ LET tk   == tasks[t]
           img1 == IF tk.op = "copy" /\ tk.newh # NoHandle
                   THEN [image EXCEPT ![tk.args.dst] = tk.newh]
                   ELSE image
           tks1 == [tasks EXCEPT ![t] =
                      [IdleTask EXCEPT !.st = "delivered", !.op = tk.op,
                                       !.self = tk.self, !.args = tk.args,
                                       !.pc = tk.pc, !.runs = tk.runs,
                                       !.outcome = tk.outcome,
                                       !.received = tk.outcome,
                                       !.overlap = tk.overlap,
                                       !.pre = tk.pre, !.seq = tk.seq]]
       IN  Update(heap, img1, tks1)
    /\ UNCHANGED <<calls, probe, out>>

\* the method has returned or raised: its locals are dropped
Finished(tk, outcome) ==
    [tk EXCEPT !.st = "finished", !.pc = "done", !.outcome = outcome,
               !.tmp = NoHandle, !.layer = NoHandle]

Running(t, pc) == tasks[t].st = "running" /\ tasks[t].pc = pc

\* a step that computes a new image from the Imager's current one and keeps
\* it in the local tmp, or raises when the pixel data cannot be read
Compute(t, result, nextpc) ==
    LET tk == tasks[t]
        h  == image[tk.self]
    IN  IF ~CanLoad(heap[h])
        THEN Update(heap, image, [tasks EXCEPT ![t] = Finished(tk, Raises("closed"))])
        ELSE LET h1 == [heap EXCEPT ![h] = PILLoad(@)]
                 n  == NewHandle(h1)
             IN  Update([h1 EXCEPT ![n] = result],
                        image,
                        [tasks EXCEPT ![t].tmp = n, ![t].pc = nextpc])

\* self.image = <the image computed>; return self
InstallAndReturn(t) ==
    LET tk == tasks[t]
    IN  Update(heap,
               [image EXCEPT ![tk.self] = tk.tmp],
               [tasks EXCEPT ![t] = Finished(tk, Returns(tk.self))])

(***************************************************************************)
(* grayscale, rotate, flip                                                 *)
(***************************************************************************)
GrayscaleCompute(t) ==
    /\ Running(t, "grayscale")
    /\ Compute(t, PILConvert(heap[image[tasks[t].self]], "L"), "grayscale_set")
    /\ UNCHANGED <<calls, probe, out>>

GrayscaleInstall(t) ==
    /\ Running(t, "grayscale_set")
    /\ InstallAndReturn(t)
    /\ UNCHANGED <<calls, probe, out>>

RotateCompute(t) ==
    /\ Running(t, "rotate")
    /\ Compute(t, PILRotate(heap[image[tasks[t].self]], tasks[t].args.angle),
               "rotate_set")
    /\ UNCHANGED <<calls, probe, out>>

RotateInstall(t) ==
    /\ Running(t, "rotate_set")
    /\ InstallAndReturn(t)
    /\ UNCHANGED <<calls, probe, out>>

\* the mutant: the two axes exchanged
flip_image_exchanged(im, axis) ==
    CASE axis = "x"  -> FlipLeftRight(im)
      [] axis = "y"  -> FlipTopBottom(im)
      [] axis = "xy" -> PILRotate(im, 180)

\* the image flip installs
flip_image(im, axis) ==
    CASE axis = "x"  -> FlipTopBottom(im)
      [] axis = "y"  -> FlipLeftRight(im)
      [] axis = "xy" -> PILRotate(im, 180)

FlipCompute(t) ==
    /\ Running(t, "flip")
    /\ Compute(t, flip_image(heap[image[tasks[t].self]], tasks[t].args.axis),
               "flip_set")
    /\ UNCHANGED <<calls, probe, out>>

FlipInstall(t) ==
    /\ Running(t, "flip_set")
    /\ InstallAndReturn(t)
    /\ UNCHANGED <<calls, probe, out>>

(***************************************************************************)
(* paste                                                                   *)
(***************************************************************************)
\* getcolors and getextrema read the pixel data, mode and size do not
NeedsPixels(im) == im.mode \in {"P", "RGBA"}

\* the mutant: the `not` of the test is lost
transparent_path_negated(src, dst) ==
    ~(has_transparency(src) \/ has_transparency(dst))

\* paste's test: has_transparency(img) or has_transparency(self)
transparent_path(src, dst) == has_transparency(src) \/ has_transparency(dst)

\* pos = _calculate_position(...); the test of the two images
PasteCheck(t) ==
    /\ Running(t, "check")
    /\ LET tk  == tasks[t]
           hs  == image[tk.args.img]
           hd  == image[tk.self]
           pos == calculate_position(heap[hs].size, tk.args.pos, tk.args.anchor)
           h1  == IF NeedsPixels(heap[hs]) /\ CanLoad(heap[hs])
                  THEN [heap EXCEPT ![hs] = PILLoad(@)] ELSE heap
           h2  == IF NeedsPixels(h1[hd]) /\ CanLoad(h1[hd])
                  THEN [h1 EXCEPT ![hd] = PILLoad(@)] ELSE h1
       IN  IF NeedsPixels(heap[hs]) /\ ~CanLoad(heap[hs])
           THEN Update(heap, image,
                       [tasks EXCEPT ![t] = Finished(tk, Raises("closed"))])
           ELSE IF has_transparency(h1[hs])
           THEN Update(h1, image,
                       [tasks EXCEPT ![t].pos = pos, ![t].pc = "promote"])
           ELSE IF NeedsPixels(h1[hd]) /\ ~CanLoad(h1[hd])
           THEN Update(h1, image,
                       [tasks EXCEPT ![t] = Finished(tk, Raises("closed"))])
           ELSE IF transparent_path(h2[hs], h2[hd])
           THEN Update(h2, image,
                       [tasks EXCEPT ![t].pos = pos, ![t].pc = "promote"])
           ELSE IF tk.args.reverse
           THEN Update(h2, image,
                       [tasks EXCEPT ![t] = Finished(tk, Returns(tk.self))])
           ELSE Update(h2, image,
                       [tasks EXCEPT ![t].pos = pos, ![t].pc = "direct"])
    /\ UNCHANGED <<calls, probe, out>>

\* self.image.paste(img.image, pos); return self
PasteDirect(t) ==
    /\ Running(t, "direct")
    /\ LET tk == tasks[t]
           hs == image[tk.args.img]
           hd == image[tk.self]
           h1 == [heap EXCEPT ![hs] = PILLoad(@)]
           h2 == [h1 EXCEPT ![hd] = PILLoad(@)]
       IN  IF ~CanLoad(heap[hs]) \/ ~CanLoad(heap[hd])
           THEN Update(heap, image,
                       [tasks EXCEPT ![t] = Finished(tk, Raises("closed"))])
           ELSE Update([h2 EXCEPT ![hd] = PILPaste(h2[hd], h2[hs], tk.pos)],
                       image,
                       [tasks EXCEPT ![t] = Finished(tk, Returns(tk.self))])
    /\ UNCHANGED <<calls, probe, out>>

\* if self.image.mode != "RGBA": <tmp> = self.image.convert("RGBA")
PastePromote(t) ==
    /\ Running(t, "promote")
    /\ IF heap[image[tasks[t].self]].mode # "RGBA"
       THEN Compute(t, PILConvert(heap[image[tasks[t].self]], "RGBA"),
                    "promote_set")
       ELSE Update(heap, image, [tasks EXCEPT ![t].pc = "layer"])
    /\ UNCHANGED <<calls, probe, out>>

\* self.image = <tmp>
PastePromoteInstall(t) ==
    /\ Running(t, "promote_set")
    /\ Update(heap,
              [image EXCEPT ![tasks[t].self] = tasks[t].tmp],
              [tasks EXCEPT ![t].tmp = NoHandle, ![t].pc = "layer"])
    /\ UNCHANGED <<calls, probe, out>>

\* layer = PILImg.new("RGBA", self.image.size); layer.paste(img.image, pos)
PasteLayer(t) ==
    /\ Running(t, "layer")
    /\ LET tk == tasks[t]
           hs == image[tk.args.img]
           h1 == [heap EXCEPT ![hs] = PILLoad(@)]
           n  == NewHandle(h1)
       IN  IF ~CanLoad(heap[hs])
           THEN Update(heap, image,
                       [tasks EXCEPT ![t] = Finished(tk, Raises("closed"))])
           ELSE Update([h1 EXCEPT ![n] =
                           PILPaste(PILNew("RGBA", heap[image[tk.self]].size),
                                    h1[hs], tk.pos)],
                       image,
                       [tasks EXCEPT ![t].layer = n,
                                     ![t].pc = IF tk.args.reverse
                                               THEN "swap_read" ELSE "composite"])
    /\ UNCHANGED <<calls, probe, out>>

\* self.image, layer = layer, self.image: the right-hand side is evaluated
PasteSwapRead(t) ==
    /\ Running(t, "swap_read")
    /\ Update(heap, image,
              [tasks EXCEPT ![t].tmp = image[tasks[t].self],
                            ![t].pc = "swap_write"])
    /\ UNCHANGED <<calls, probe, out>>

\* ... and assigned
PasteSwapWrite(t) ==
    /\ Running(t, "swap_write")
    /\ Update(heap,
              [image EXCEPT ![tasks[t].self] = tasks[t].layer],
              [tasks EXCEPT ![t].layer = tasks[t].tmp, ![t].tmp = NoHandle,
                            ![t].pc = "composite"])
    /\ UNCHANGED <<calls, probe, out>>

\* <tmp> = PILImg.alpha_composite(self.image, layer)
PasteComposite(t) ==
    /\ Running(t, "composite")
    /\ LET tk  == tasks[t]
           im1 == heap[image[tk.self]]
           im2 == heap[tk.layer]
       IN  IF im1.mode # "RGBA" \/ im2.mode # "RGBA" \/ im1.size # im2.size
           THEN Update(heap, image,
                       [tasks EXCEPT ![t] = Finished(tk, Raises("ValueError"))])
           ELSE Compute(t, PILAlphaComposite(im1, im2), "paste_set")
    /\ UNCHANGED <<calls, probe, out>>

\* self.image = <tmp>; return self
PasteInstall(t) ==
    /\ Running(t, "paste_set")
    /\ InstallAndReturn(t)
    /\ UNCHANGED <<calls, probe, out>>

(***************************************************************************)
(* invert                                                                  *)
(***************************************************************************)
\* if self.mode == "RGBA": self.convert("RGB"), up to its assignment
InvertCheck(t) ==
    /\ Running(t, "invert_check")
    /\ IF heap[image[tasks[t].self]].mode = "RGBA"
       THEN Compute(t, PILConvert(heap[image[tasks[t].self]], "RGB"),
                    "invert_rgb_set")
       ELSE Update(heap, image, [tasks EXCEPT ![t].pc = "invert"])
    /\ UNCHANGED <<calls, probe, out>>

\* the assignment of convert: self.image = <tmp>
InvertInstallRGB(t) ==
    /\ Running(t, "invert_rgb_set")
    /\ Update(heap,
              [image EXCEPT ![tasks[t].self] = tasks[t].tmp],
              [tasks EXCEPT ![t].tmp = NoHandle, ![t].pc = "invert"])
    /\ UNCHANGED <<calls, probe, out>>

\* <tmp> = PILOps.invert(self.image), which PIL refuses for modes other
\* than L and RGB
InvertCompute(t) ==
    /\ Running(t, "invert")
    /\ IF heap[image[tasks[t].self]].mode \in {"L", "RGB"}
       THEN Compute(t, PILInvert(heap[image[tasks[t].self]]), "invert_set")
       ELSE Update(heap, image,
                   [tasks EXCEPT ![t] = Finished(tasks[t], Raises("OSError"))])
    /\ UNCHANGED <<calls, probe, out>>

InvertInstall(t) ==
    /\ Running(t, "invert_set")
    /\ InstallAndReturn(t)
    /\ UNCHANGED <<calls, probe, out>>

(***************************************************************************)
(* opacity, apply_mask                                                     *)
(***************************************************************************)
\* the mutant: the upper limit of an integer alpha is off by one
opacity_value_256(alpha) ==
    IF alpha.ty = "float"
    THEN IF alpha.v < 0 \/ alpha.v > 10
         THEN Raises("ValueError")
         ELSE Returns((alpha.v * 255) \div 10)
    ELSE IF alpha.ty = "int"
    THEN IF alpha.v < 0 \/ alpha.v > 256
         THEN Raises("ValueError")
         ELSE Returns(alpha.v)
    ELSE Raises("TypeError")

\* the validation of opacity; a float alpha is given in tenths, and
\* int(alpha * 255) truncates
opacity_value(alpha) ==
    IF alpha.ty = "float"
    THEN IF alpha.v < 0 \/ alpha.v > 10
         THEN Raises("ValueError")
         ELSE Returns((alpha.v * 255) \div 10)
    ELSE IF alpha.ty = "int"
    THEN IF alpha.v < 0 \/ alpha.v > 255
         THEN Raises("ValueError")
         ELSE Returns(alpha.v)
    ELSE Raises("TypeError")

OpacityValidate(t) ==
    /\ Running(t, "validate")
    /\ LET v == opacity_value(tasks[t].args.alpha)
       IN  IF v.kind = "raise"
           THEN Update(heap, image, [tasks EXCEPT ![t] = Finished(tasks[t], v)])
           ELSE Update(heap, image,
                       [tasks EXCEPT ![t].alpha = v.val, ![t].pc = "putalpha"])
    /\ UNCHANGED <<calls, probe, out>>

\* self.image.putalpha(alpha); return self
OpacityPutAlpha(t) ==
    /\ Running(t, "putalpha")
    /\ LET tk == tasks[t]
           h  == image[tk.self]
       IN  IF ~CanLoad(heap[h])
           THEN Update(heap, image,
                       [tasks EXCEPT ![t] = Finished(tk, Raises("closed"))])
           ELSE Update([heap EXCEPT ![h] = PutAlphaConst(PILLoad(@), tk.alpha)],
                       image,
                       [tasks EXCEPT ![t] = Finished(tk, Returns(tk.self))])
    /\ UNCHANGED <<calls, probe, out>>

\* <tmp> = mask.image.convert("L")
MaskConvert(t) ==
    /\ Running(t, "mask_convert")
    /\ LET tk == tasks[t]
           hm == image[tk.args.mask]
           h1 == [heap EXCEPT ![hm] = PILLoad(@)]
           n  == NewHandle(h1)
       IN  IF ~CanLoad(heap[hm])
           THEN Update(heap, image,
                       [tasks EXCEPT ![t] = Finished(tk, Raises("closed"))])
           ELSE Update([h1 EXCEPT ![n] = PILConvert(h1[hm], "L")],
                       image,
                       [tasks EXCEPT ![t].tmp = n, ![t].pc = "mask_putalpha"])
    /\ UNCHANGED <<calls, probe, out>>

\* self.image.putalpha(<tmp>); return self.  PIL promotes the image before
\* it finds that the band does not fit.
MaskPutAlpha(t) ==
    /\ Running(t, "mask_putalpha")
    /\ LET tk == tasks[t]
           h  == image[tk.self]
       IN  IF ~CanLoad(heap[h])
           THEN Update(heap, image,
                       [tasks EXCEPT ![t] = Finished(tk, Raises("closed"))])
           ELSE IF heap[h].size # heap[tk.tmp].size
           THEN Update([heap EXCEPT ![h] = Promote(PILLoad(@))],
                       image,
                       [tasks EXCEPT ![t] = Finished(tk, Raises("ValueError"))])
           ELSE Update([heap EXCEPT ![h] = PutAlphaBand(PILLoad(@), heap[tk.tmp])],
                       image,
                       [tasks EXCEPT ![t] = Finished(tk, Returns(tk.self))])
    /\ UNCHANGED <<calls, probe, out>>

(***************************************************************************)
(* copy, save                                                              *)
(***************************************************************************)
\* the mutant: the new Imager takes the image of the old one as it is
imager_init_shared(h, k) == [heap |-> h, handle |-> k]

\* Imager.__init__ from an Imager: image.image.copy()
imager_init(h, k) ==
    LET n == NewHandle(h)
    IN  [heap |-> [h EXCEPT ![n] = PILCopy(h[k])], handle |-> n]

\* return self.__class__(self)
Copy(t) ==
    /\ Running(t, "copy")
    /\ LET tk == tasks[t]
           h  == image[tk.self]
           r  == imager_init([heap EXCEPT ![h] = PILLoad(@)], h)
       IN  IF ~CanLoad(heap[h])
           THEN Update(heap, image,
                       [tasks EXCEPT ![t] = Finished(tk, Raises("closed"))])
           ELSE Update(r.heap, image,
                       [tasks EXCEPT ![t] =
                           [Finished(tk, Returns("Imager")) EXCEPT !.newh = r.handle]])
    /\ UNCHANGED <<calls, probe, out>>

\* self.image.save(fp), which returns None
Save(t) ==
    /\ Running(t, "save")
    /\ LET tk == tasks[t]
           h  == image[tk.self]
       IN  IF ~CanLoad(heap[h])
           THEN Update(heap, image,
                       [tasks EXCEPT ![t] = Finished(tk, Raises("closed"))])
           ELSE Update([heap EXCEPT ![h] = PILLoad(@)], image,
                       [tasks EXCEPT ![t] = Finished(tk, Returns("None"))])
    /\ UNCHANGED <<calls, probe, out>>

(***************************************************************************)
(* The synchronous operations, made by the caller between its awaits.      *)
(***************************************************************************)
Sync == calls < MaxCalls /\ InFlight = {} /\ calls' = calls + 1

\* convert(mode): self.image = self.image.convert(mode)
Convert(i, mode) ==
    /\ Sync
    /\ LET h  == image[i]
           h1 == [heap EXCEPT ![h] = PILLoad(@)]
           n  == NewHandle(h1)
       IN  IF ~CanLoad(heap[h])
           THEN Update(heap, image, tasks)
           ELSE Update([h1 EXCEPT ![n] = PILConvert(h1[h], mode)],
                       [image EXCEPT ![i] = n], tasks)
    /\ UNCHANGED <<probe, out>>

\* the image setter with the image of another Imager: self._image = image
SetImageShared(i, j) ==
    /\ Sync
    /\ i # j
    /\ Update(heap, [image EXCEPT ![i] = image[j]], tasks)
    /\ UNCHANGED <<probe, out>>

\* the image setter with an image made by the caller
SetImageNew(i) ==
    /\ Sync
    /\ LET n == NewHandle(heap)
       IN  Update([heap EXCEPT ![n] = ImgNew], [image EXCEPT ![i] = n], tasks)
    /\ UNCHANGED <<probe, out>>

\* with imager: ... ; __enter__ returns self, __exit__ is the image's
Exit(i) ==
    /\ Sync
    /\ Update([heap EXCEPT ![image[i]] = PILExit(@)], image, tasks)
    /\ UNCHANGED <<probe, out>>

\* to_bytes: self.image.tobytes() reads the pixel data
ToBytes(i) ==
    /\ Sync
    /\ IF CanLoad(heap[image[i]])
       THEN Update([heap EXCEPT ![image[i]] = PILLoad(@)], image, tasks)
       ELSE Update(heap, image, tasks)
    /\ UNCHANGED <<probe, out>>

(***************************************************************************)
(* The specifications.  In Spec the caller awaits each call before it      *)
(* makes the next; in SpecConc it lets two calls on the Imager a be in     *)
(* flight.                                                                 *)
(***************************************************************************)
Step(t) ==
    \/ GrayscaleCompute(t) \/ GrayscaleInstall(t)
    \/ RotateCompute(t) \/ RotateInstall(t)
    \/ FlipCompute(t) \/ FlipInstall(t)
    \/ PasteCheck(t) \/ PasteDirect(t)
    \/ PastePromote(t) \/ PastePromoteInstall(t) \/ PasteLayer(t)
    \/ PasteSwapRead(t) \/ PasteSwapWrite(t)
    \/ PasteComposite(t) \/ PasteInstall(t)
    \/ InvertCheck(t) \/ InvertInstallRGB(t)
    \/ InvertCompute(t) \/ InvertInstall(t)
    \/ OpacityValidate(t) \/ OpacityPutAlpha(t)
    \/ MaskConvert(t) \/ MaskPutAlpha(t)
    \/ Copy(t) \/ Save(t)

CallAwaited ==
    \E t \in Tasks, i \in Imagers, op \in WrappedOps :
        \E args \in CallArgs(op, i) : Call(t, i, op, args, 1)

CallConcurrent ==
    \E t \in Tasks, i \in {"a"}, op \in ConcurrentOps :
        \E args \in ConcurrentArgs(op, i) : Call(t, i, op, args, 2)

Next ==
    \/ CallAwaited
    \/ \E t \in Tasks : Start(t)
    \/ \E t \in Tasks : Step(t)
    \/ \E t \in Tasks : Deliver(t)
    \/ \E i \in Imagers, mode \in {"L", "RGB", "RGBA"} : Convert(i, mode)
    \/ \E i \in Imagers, j \in Imagers : SetImageShared(i, j)
    \/ \E i \in Imagers : SetImageNew(i)
    \/ \E i \in Imagers : Exit(i)
    \/ \E i \in Imagers : ToBytes(i)

Spec == Init /\ [][Next]_vars

StepConc(t) ==
    \/ GrayscaleCompute(t) \/ GrayscaleInstall(t)
    \/ FlipCompute(t) \/ FlipInstall(t)
    \/ PasteCheck(t) \/ PasteDirect(t)
    \/ PastePromote(t) \/ PastePromoteInstall(t) \/ PasteLayer(t)
    \/ PasteSwapRead(t) \/ PasteSwapWrite(t)
    \/ PasteComposite(t) \/ PasteInstall(t)
    \/ InvertCheck(t) \/ InvertInstallRGB(t)
    \/ InvertCompute(t) \/ InvertInstall(t)

NextConc ==
    \/ CallConcurrent
    \/ \E t \in Tasks : Start(t)
    \/ \E t \in Tasks : StepConc(t)
    \/ \E t \in Tasks : Deliver(t)

InitConc ==
    /\ \E ia \in {ImgA1, ImgA2}, ib \in InitB :
          heap = [k \in Handles |->
                     IF k = 1 THEN ia ELSE IF k = 2 THEN ib ELSE Free]
    /\ image = [i \in Imagers |-> IF i = "a" THEN 1 ELSE 2]
    /\ tasks = [t \in Tasks |-> IdleTask]
    /\ calls = 0
    /\ probe = None
    /\ out = None

SpecConc == InitConc /\ [][NextConc]_vars

\* the executor's workers take what is queued, a thread that runs is
\* scheduled, and the event loop resumes a caller whose future is resolved
Fairness ==
    \A t \in Tasks :
        WF_vars(Start(t)) /\ WF_vars(Step(t)) /\ WF_vars(Deliver(t))

\* the calls of the specification with fairness: every wrapped method,
\* awaited one at a time
LiveArgs(op, i) ==
    CASE op = "paste" -> ConcurrentArgs(op, i)
      [] op = "rotate"  -> { [angle |-> 180] }
      [] op = "flip"    -> { [axis |-> "y"] }
      [] op = "opacity" ->
            { [alpha |-> al] :
                al \in { [ty |-> "int", v |-> 128], [ty |-> "int", v |-> 256],
                         [ty |-> "str", v |-> 0] } }
      [] OTHER -> CallArgs(op, i)

CallLive ==
    \E t \in Tasks, i \in Imagers, op \in WrappedOps :
        \E args \in LiveArgs(op, i) : Call(t, i, op, args, 1)

NextLive ==
    \/ CallLive
    \/ \E t \in Tasks : Start(t)
    \/ \E t \in Tasks : Step(t)
    \/ \E t \in Tasks : Deliver(t)

SpecLive == InitConc /\ [][NextLive]_vars /\ Fairness

(***************************************************************************)
(* What an operation leaves as the Imager's image when nothing else runs   *)
(* during it, stated from the image before it (im) and the image of the    *)
(* other Imager (other).  An operation that raises before it writes        *)
(* leaves the image as it was.                                             *)
(***************************************************************************)
\* an image carries transparency (in the modes of the heap)
Transparent(im) ==
    im.mode = "RGBA" /\ \E k \in 1..NPixels(im.size) : im.px[k][4] < 255

\* the offset of a content of the given size for an anchor
Offset(size, pos, anchor) ==
    LET dx == CASE anchor[1] = "l" -> 0
                [] anchor[1] = "m" -> size[1] \div 2
                [] anchor[1] = "r" -> size[1]
        dy == CASE anchor[2] = "t" -> 0
                [] anchor[2] = "m" -> size[2] \div 2
                [] anchor[2] = "b" -> size[2]
    IN  <<pos[1] - dx, pos[2] - dy>>

\* the scratch layer of paste: transparent, of the destination's size, with
\* the source painted at the offset
Scratch(im, other, args) ==
    PILPaste(PILNew("RGBA", im.size), other,
             Offset(other.size, args.pos, args.anchor))

Effect(op, args, im, other) ==
    IF ~CanLoad(im) THEN im
    ELSE CASE op = "grayscale" -> PILConvert(im, "L")
           [] op = "rotate" ->
                IF args.angle = 90 THEN Rotate90(im) ELSE Rotate180(im)
           [] op = "flip" ->
                IF args.axis = "x" THEN FlipTopBottom(im)
                ELSE IF args.axis = "y" THEN FlipLeftRight(im)
                ELSE Rotate180(im)
           [] op = "invert" ->
                IF im.mode = "LA" THEN im
                ELSE PILInvert(IF im.mode = "RGBA" THEN PILConvert(im, "RGB") ELSE im)
           [] op = "opacity" ->
                IF /\ args.alpha.ty \in {"int", "float"}
                   /\ args.alpha.v >= 0
                   /\ args.alpha.v <= (IF args.alpha.ty = "int" THEN 255 ELSE 10)
                THEN PutAlphaConst(im, IF args.alpha.ty = "int" THEN args.alpha.v
                                       ELSE (args.alpha.v * 255) \div 10)
                ELSE im
           [] op = "apply_mask" ->
                IF ~CanLoad(other) THEN im
                ELSE IF other.size # im.size THEN Promote(im)
                ELSE PutAlphaBand(im, PILConvert(other, "L"))
           [] op = "paste" ->
                IF ~CanLoad(other) THEN im
                ELSE IF ~Transparent(im) /\ ~Transparent(other)
                THEN IF args.reverse THEN im
                     ELSE PILPaste(im, other,
                                   Offset(other.size, args.pos, args.anchor))
                ELSE IF args.reverse
                THEN PILAlphaComposite(Scratch(im, other, args),
                                       PILConvert(im, "RGBA"))
                ELSE PILAlphaComposite(PILConvert(im, "RGBA"),
                                       Scratch(im, other, args))
           [] OTHER -> im

\* the image of the Imager a call is made on, now and after the call alone
Current(tk) == heap[image[tk.self]]
After(tk) == Effect(tk.op, tk.args, tk.pre.im, tk.pre.other)

(***************************************************************************)
(* The pure functions on their own: an input is drawn, the function is     *)
(* applied once and its result kept in out.                                *)
(***************************************************************************)
PosInputs ==
    [fn : {"pos"},
     size : (-1..MaxSide) \X (-1..MaxSide),
     pos : (-MaxCoord..MaxCoord) \X (-MaxCoord..MaxCoord),
     anchor : T_Anchor]

\* one- and two-pixel images of every mode has_transparency distinguishes
ProbePixels(mode) ==
    CASE mode = "P"    -> {<<i>> : i \in 0..2}
      [] mode = "L"    -> {<<0>>, <<255>>}
      [] mode = "LA"   -> {<<0, 0>>, <<255, 255>>}
      [] mode = "RGB"  -> {<<0, 0, 0>>, <<255, 255, 255>>}
      [] mode = "RGBA" -> {<<10, 20, 30, a>> : a \in {0, 128, 254, 255}}

ProbeImages ==
    UNION { UNION { { [Image(m, <<n, 1>>, px) EXCEPT !.transp = t] :
                        t \in (IF m = "P" THEN -1..2 ELSE {-1}) } :
                    px \in [1..n -> ProbePixels(m)] } :
            <<m, n>> \in {"P", "L", "LA", "RGB", "RGBA"} \X (1..2) }

TransInputs == [fn : {"has_transparency"}, im : ProbeImages]

InitPos ==
    /\ probe \in PosInputs
    /\ out = None
    /\ heap = <<>> /\ image = <<>> /\ tasks = <<>> /\ calls = 0

CalcPosition ==
    /\ probe.fn = "pos"
    /\ out = None
    /\ out' = [kind |-> "pos",
               val |-> calculate_position(probe.size, probe.pos, probe.anchor)]
    /\ UNCHANGED <<heap, image, tasks, calls, probe>>

SpecPos == InitPos /\ [][CalcPosition]_vars

InitTrans ==
    /\ probe \in TransInputs
    /\ out = None
    /\ heap = <<>> /\ image = <<>> /\ tasks = <<>> /\ calls = 0

CalcTransparency ==
    /\ probe.fn = "has_transparency"
    /\ out = None
    /\ out' = [kind |-> "bool", val |-> has_transparency(probe.im)]
    /\ UNCHANGED <<heap, image, tasks, calls, probe>>

SpecTrans == InitTrans /\ [][CalcTransparency]_vars

(***************************************************************************)
(* C1: for each of the nine anchors, every size (w, h) with w, h >= 0 and  *)
(* every reference point (x, y), _calculate_position returns               *)
(* (x - dx, y - dy), where dx is 0, w div 2 or w for a first letter l, m   *)
(* or r and dy is 0, h div 2 or h for a second letter t, m or b.           *)
(***************************************************************************)
AnchorShift(letter, n) ==
    CASE letter \in {"l", "t"} -> 0
      [] letter = "m"          -> n \div 2
      [] letter \in {"r", "b"} -> n

C1_AnchorOffset ==
    (out.kind = "pos" /\ probe.size[1] >= 0 /\ probe.size[2] >= 0) =>
        out.val = <<probe.pos[1] - AnchorShift(probe.anchor[1], probe.size[1]),
                    probe.pos[2] - AnchorShift(probe.anchor[2], probe.size[2])>>

C1_Witness ==
    /\ out.kind = "pos"
    /\ probe.anchor = <<"m", "b">>
    /\ probe.size = <<3, 2>>
    /\ probe.pos = <<1, 1>>
    /\ out.val = <<0, -1>>

(***************************************************************************)
(* C3: has_transparency is true exactly when the image is in mode P and    *)
(* some pixel's palette index is the image's transparent index, or the     *)
(* image is in mode RGBA and some alpha value is below 255; it is false    *)
(* for a P image without a transparent index and for every other mode.     *)
(***************************************************************************)
C3_Transparency ==
    out.kind = "bool" =>
        LET im == probe.im
            n  == NPixels(im.size)
        IN  out.val =
              \/ /\ im.mode = "P"
                 /\ im.transp >= 0
                 /\ \E k \in 1..n : im.px[k] = <<im.transp>>
              \/ /\ im.mode = "RGBA"
                 /\ \E k \in 1..n : im.px[k][4] < 255

C3_Witness ==
    /\ out.kind = "bool"
    /\ out.val
    /\ probe.im.mode = "RGBA"
    /\ probe.im.px = <<<<10, 20, 30, 255>>, <<10, 20, 30, 254>>>>

(***************************************************************************)
(* C2: opacity with an invalid argument (a float below 0 or above 1, an    *)
(* integer below 0 or above 255, a value of another type) fails with a     *)
(* validation error and leaves the Imager's handle and its image, and the  *)
(* whole heap of images, as they were before the call.                     *)
(***************************************************************************)
InvalidAlpha(alpha) ==
    \/ alpha.ty = "float" /\ (alpha.v < 0 \/ alpha.v > 10)
    \/ alpha.ty = "int" /\ (alpha.v < 0 \/ alpha.v > 255)
    \/ alpha.ty \notin {"float", "int"}

C2_InvalidOpacity ==
    \A t \in Tasks :
        LET tk == tasks[t]
        IN  (tk.st = "finished" /\ tk.op = "opacity" /\ InvalidAlpha(tk.args.alpha)) =>
                /\ tk.outcome \in {Raises("ValueError"), Raises("TypeError")}
                /\ image[tk.self] = tk.pre.h
                /\ heap[image[tk.self]] = tk.pre.im
                /\ heap[image[Other(tk.self)]] = tk.pre.other

C2_Witness ==
    \E t \in Tasks :
        /\ tasks[t].st = "finished"
        /\ tasks[t].op = "opacity"
        /\ tasks[t].args.alpha = [ty |-> "int", v |-> 256]
        /\ tasks[t].outcome = Raises("ValueError")
        /\ tasks[t].pre.im.mode = "RGB"
        /\ Current(tasks[t]).mode = "RGB"

(***************************************************************************)
(* C4: when neither the source nor the destination carries transparency,   *)
(* paste does not change the destination's mode and does not replace its   *)
(* handle; with reverse the destination is left as it was, and without     *)
(* reverse a paste that returns has written the source over the            *)
(* destination at the offset the anchor gives.                             *)
(***************************************************************************)
C4_DirectPaste ==
    \A t \in Tasks :
        LET tk  == tasks[t]
            dst == tk.pre.im
            src == tk.pre.other
        IN  (/\ tk.st = "finished"
             /\ tk.op = "paste"
             /\ ~Transparent(dst)
             /\ ~Transparent(src)) =>
                /\ image[tk.self] = tk.pre.h
                /\ Current(tk).mode = dst.mode
                /\ tk.args.reverse => Content(Current(tk)) = Content(dst)
                /\ (~tk.args.reverse /\ tk.outcome.kind = "return") =>
                      Content(Current(tk)) =
                          Content(PILPaste(dst, src,
                                           Offset(src.size, tk.args.pos, tk.args.anchor)))

C4_Witness ==
    \E t \in Tasks :
        /\ tasks[t].st = "finished"
        /\ tasks[t].op = "paste"
        /\ tasks[t].self = "a"
        /\ ~tasks[t].args.reverse
        /\ tasks[t].args.anchor = <<"r", "b">>
        /\ tasks[t].pre.im = ImgA1
        /\ tasks[t].pre.other = ImgB2
        /\ Current(tasks[t]).mode = "RGB"
        /\ Current(tasks[t]).px = <<<<200, 30, 30>>, <<0, 255, 0>>>>

(***************************************************************************)
(* C5: while a mutating operation runs, the Imager's image is either the   *)
(* complete image before the operation or the complete image after it.     *)
(***************************************************************************)
C5_Atomic ==
    \A t \in Tasks :
        tasks[t].st = "running" =>
            Content(Current(tasks[t])) \in
                {Content(tasks[t].pre.im), Content(After(tasks[t]))}

(***************************************************************************)
(* C6, as amended: copy gives the new Imager a handle of its own with the  *)
(* content of the old one, and the image of an Imager changes only in a    *)
(* step of an operation on that Imager, or while it shares its handle with *)
(* another Imager (which the image setter allows).                         *)
(***************************************************************************)
ImageOf(i) == Content(heap[image[i]])

CopyDelivered(t) ==
    /\ tasks[t].op = "copy"
    /\ tasks[t].st = "finished"
    /\ tasks[t].outcome.kind = "return"
    /\ tasks'[t].st = "delivered"

OperatedOn(j) ==
    \/ \E t \in Tasks : tasks[t].st = "running" /\ tasks[t].self = j
    \/ image'[j] # image[j]

C6_CopyIndependent ==
    [][ /\ \A t \in Tasks :
              CopyDelivered(t) =>
                  /\ image'[tasks[t].args.dst] # image'[tasks[t].self]
                  /\ ImageOf(tasks[t].args.dst)' = ImageOf(tasks[t].self)'
        /\ \A j \in Imagers :
              ImageOf(j)' # ImageOf(j) =>
                  \/ OperatedOn(j)
                  \/ \E i \in Imagers \ {j} : image[i] = image[j]
      ]_vars

\* a copy of a was bound to b, and then opacity changed b and not a
C6_Witness ==
    \E t, u \in Tasks :
        /\ tasks[t].st = "delivered" /\ tasks[t].op = "copy"
        /\ tasks[t].self = "a" /\ tasks[t].outcome.kind = "return"
        /\ tasks[u].st = "finished" /\ tasks[u].op = "opacity"
        /\ tasks[u].self = "b" /\ tasks[u].outcome.kind = "return"
        /\ tasks[u].seq = tasks[t].seq + 1
        /\ image["a"] # image["b"]
        /\ ImageOf("a") = Content(tasks[u].pre.other)
        /\ ImageOf("b") # Content(tasks[u].pre.im)

\* C6 as stated: a handle is owned by one Imager, and no operation on one
\* Imager changes the image of another
C6_Original ==
    [][ /\ \A t \in Tasks :
              CopyDelivered(t) =>
                  /\ image'[tasks[t].args.dst] # image'[tasks[t].self]
                  /\ ImageOf(tasks[t].args.dst)' = ImageOf(tasks[t].self)'
        /\ \A j \in Imagers : ImageOf(j)' # ImageOf(j) => OperatedOn(j)
      ]_vars

(***************************************************************************)
(* C8, as amended: an Imager always holds exactly one handle, of a live    *)
(* image, and that image can be used unless it was opened from a file and  *)
(* the file was closed (by __exit__) before its pixel data was read.       *)
(***************************************************************************)
Usable(im) == im.loaded \/ im.fp = "open"

C8_Handle ==
    \A i \in Imagers :
        /\ image[i] \in Handles
        /\ heap[image[i]] # Free
        /\ Usable(heap[image[i]]) \/ heap[image[i]].fp = "closed"

C8_Witness ==
    /\ image["a"] \in Handles
    /\ heap[image["a"]].fp = "closed"
    /\ ~heap[image["a"]].loaded
    /\ \E t \in Tasks :
          /\ tasks[t].st = "finished" /\ tasks[t].self = "a"
          /\ tasks[t].outcome = Raises("closed")

\* C8 as stated: the handle is always usable
C8_Original ==
    \A i \in Imagers :
        /\ image[i] \in Handles
        /\ heap[image[i]] # Free
        /\ Usable(heap[image[i]])

(***************************************************************************)
(* C9, as amended: when the source or the destination carries              *)
(* transparency, a paste that returns leaves an RGBA image of the          *)
(* destination's size: the scratch layer (transparent, with the source     *)
(* painted at the offset) composited over the destination promoted to      *)
(* RGBA, or with reverse the promoted destination composited over the      *)
(* scratch layer.                                                          *)
(***************************************************************************)
\* the pixels of top composited over bottom
Over(top, bottom) ==
    [k \in 1..NPixels(bottom.size) |-> CompositePx(bottom.px[k], top.px[k])]

AlphaPaste(tk) ==
    /\ tk.st = "finished"
    /\ tk.op = "paste"
    /\ tk.outcome.kind = "return"
    /\ Transparent(tk.pre.im) \/ Transparent(tk.pre.other)

C9_AlphaPaste ==
    \A t \in Tasks :
        LET tk == tasks[t]
            d  == PILConvert(tk.pre.im, "RGBA")
            s  == Scratch(tk.pre.im, tk.pre.other, tk.args)
        IN  AlphaPaste(tk) =>
                /\ Current(tk).mode = "RGBA"
                /\ Current(tk).size = tk.pre.im.size
                /\ Current(tk).px = IF tk.args.reverse THEN Over(d, s) ELSE Over(s, d)

C9_Witness ==
    \E t \in Tasks :
        /\ AlphaPaste(tasks[t])
        /\ ~tasks[t].args.reverse
        /\ tasks[t].pre.im = ImgA1
        /\ tasks[t].pre.other = ImgB1
        /\ Current(tasks[t]).mode = "RGBA"
        /\ Current(tasks[t]).px[1] # <<200, 30, 30, 255>>
        /\ Current(tasks[t]).px[2] = <<0, 0, 255, 255>>

\* C9 as stated: the destination composited over the scratch layer, the
\* two exchanged with reverse
C9_Original ==
    \A t \in Tasks :
        LET tk == tasks[t]
            d  == PILConvert(tk.pre.im, "RGBA")
            s  == Scratch(tk.pre.im, tk.pre.other, tk.args)
        IN  AlphaPaste(tk) =>
                /\ Current(tk).mode = "RGBA"
                /\ Current(tk).size = tk.pre.im.size
                /\ Current(tk).px = IF tk.args.reverse THEN Over(s, d) ELSE Over(d, s)

(***************************************************************************)
(* C7: a wrapped call is handed to a worker thread exactly once, runs to   *)
(* its end, and the awaiting caller then receives what the method          *)
(* returned or the error it raised, and nothing before the method has      *)
(* ended.                                                                  *)
(***************************************************************************)
Expected(tk) ==
    IF tk.outcome.kind = "raise"
    THEN tk.outcome.val \in {"ValueError", "TypeError", "OSError", "closed"}
    ELSE tk.outcome.val = (CASE tk.op = "copy" -> "Imager"
                             [] tk.op = "save" -> "None"
                             [] OTHER          -> tk.self)

C7_Awaitable ==
    /\ [](\A t \in Tasks :
            LET tk == tasks[t]
            IN  /\ tk.runs <= 1
                /\ tk.st \in {"running", "finished", "delivered"} => tk.runs = 1
                /\ tk.received # None =>
                      /\ tk.st = "delivered"
                      /\ tk.pc = "done"
                      /\ tk.received = tk.outcome
                /\ tk.st = "delivered" => tk.received # None /\ Expected(tk))
    /\ \A t \in Tasks : (tasks[t].st = "queued") ~> (tasks[t].st = "delivered")

C7_Witness ==
    \E t \in Tasks :
        /\ tasks[t].st = "delivered"
        /\ tasks[t].op = "opacity"
        /\ tasks[t].runs = 1
        /\ tasks[t].received = Raises("TypeError")

(***************************************************************************)
(* C10: a call made while no other call is in flight, and ended before the *)
(* next is made, leaves the image the operation gives from the image it    *)
(* found, so that calls awaited one after the other apply in the order     *)
(* they were made; two calls in flight together can lose one's effect.     *)
(***************************************************************************)
Awaited(tk) == tk.st \in {"finished", "delivered"} /\ ~tk.overlap

C10_Serialized ==
    \A t \in Tasks :
        LET tk == tasks[t]
        IN  /\ (tk.st = "finished" /\ ~tk.overlap) =>
                   Content(Current(tk)) = Content(After(tk))
            /\ \A u \in Tasks \ {t} :
                   LET uk == tasks[u]
                   IN  (/\ tk.st = "finished" /\ Awaited(tk) /\ Awaited(uk)
                        /\ uk.self = tk.self
                        /\ tk.seq = uk.seq + 1) =>
                           Content(Current(tk)) =
                               Content(Effect(tk.op, tk.args, After(uk), tk.pre.other))

\* grayscale and flip were in flight together on one Imager, both returned,
\* and the image is neither flip after grayscale nor grayscale after flip
C10_Witness ==
    \E t, u \in Tasks :
        LET tk == tasks[t]
            uk == tasks[u]
        IN  /\ tk.st = "delivered" /\ uk.st = "delivered"
            /\ tk.overlap /\ uk.overlap
            /\ tk.self = uk.self
            /\ tk.op = "grayscale" /\ uk.op = "flip"
            /\ tk.outcome.kind = "return" /\ uk.outcome.kind = "return"
            /\ tk.pre.im = uk.pre.im
            /\ Content(Current(tk)) \notin
                  { Content(Effect("flip", uk.args, Effect("grayscale", tk.args, tk.pre.im, tk.pre.other), tk.pre.other)),
                    Content(Effect("grayscale", tk.args, Effect("flip", uk.args, tk.pre.im, tk.pre.other), tk.pre.other)) }

=============================================================================
